---------------------------- MODULE Spec2Model ----------------------------
(***************************************************************************)
(* Model of src/src/utils.py: reconstruct_contact_date,                    *)
(* create_pseudo_customer_id and create_sample_flow_diagram.               *)
(*                                                                         *)
(* A DataFrame is a record [n, cols, data]: n rows, the ordered column     *)
(* names, and for every column name the sequence of its n cell values.     *)
(* DataFrames live in a heap (a sequence of objects) and are named by      *)
(* references (indices), so that copying and aliasing are distinguishable. *)
(* A Python str is the sequence of its characters.  A cell that holds a    *)
(* str value s is <<"s">> \o s, a cell that holds the int whose decimal    *)
(* digits are d is <<"i">> \o d (used by the identifier columns, whose     *)
(* cells are converted with astype(str)).                                  *)
(***************************************************************************)
EXTENDS Integers, Sequences, FiniteSets

VARIABLES
    op,              \* the function being executed ("none" before a call)
    pc,              \* position inside that function
    heap,            \* the DataFrame objects allocated so far
    input,           \* the caller's table as it was when the call was made
    df,              \* the local name df: a reference into heap
    additional_info, \* parameter of reconstruct_contact_date
    start_year,      \* parameter of reconstruct_contact_date
    years,           \* local list years
    current_year,    \* local current_year
    prev_month,      \* local prev_month
    idx,             \* position of the row scan / of the link value list
    id_cols,         \* parameter of create_pseudo_customer_id
    sample_counts,   \* parameter of create_sample_flow_diagram
    link_value,      \* the link value list built so far
    errType,         \* the Python exception raised ("none" if none)
    errMsg,          \* which raise statement produced it
    errFields,       \* the field names the exception's message holds
    errValues,       \* the month values the exception's message holds
    result           \* reference to the returned DataFrame (0: nothing returned)

vars == <<op, pc, heap, input, df, additional_info, start_year, years,
          current_year, prev_month, idx, id_cols, sample_counts, link_value,
          errType, errMsg, errFields, errValues, result>>

---------------------------------------------------------------------------
(* Bounds of the model *)

MaxRows == 3

MaxIdRows == 2

---------------------------------------------------------------------------
(* Strings *)

S(str) == <<"s">> \o str

I(digits) == <<"i">> \o digits

LowerChar(c) ==
    CASE c = "A" -> "a" [] c = "B" -> "b" [] c = "C" -> "c" [] c = "D" -> "d"
      [] c = "E" -> "e" [] c = "F" -> "f" [] c = "G" -> "g" [] c = "H" -> "h"
      [] c = "I" -> "i" [] c = "J" -> "j" [] c = "K" -> "k" [] c = "L" -> "l"
      [] c = "M" -> "m" [] c = "N" -> "n" [] c = "O" -> "o" [] c = "P" -> "p"
      [] c = "Q" -> "q" [] c = "R" -> "r" [] c = "S" -> "s" [] c = "T" -> "t"
      [] c = "U" -> "u" [] c = "V" -> "v" [] c = "W" -> "w" [] c = "X" -> "x"
      [] c = "Y" -> "y" [] c = "Z" -> "z" [] OTHER -> c

Lower(str) == [i \in 1..Len(str) |-> LowerChar(str[i])]

DigitChar(d) ==
    CASE d = 0 -> "0" [] d = 1 -> "1" [] d = 2 -> "2" [] d = 3 -> "3"
      [] d = 4 -> "4" [] d = 5 -> "5" [] d = 6 -> "6" [] d = 7 -> "7"
      [] d = 8 -> "8" [] d = 9 -> "9"

RECURSIVE IntToStr(_)
IntToStr(n) ==
    IF n < 10 THEN <<DigitChar(n)>>
    ELSE Append(IntToStr(n \div 10), DigitChar(n % 10))

\* str(v) of a cell value: the characters of a str, the digits of an int.
Str(v) == Tail(v)

RECURSIVE Join(_, _)
Join(sep, strs) ==
    IF Len(strs) = 0 THEN <<>>
    ELSE IF Len(strs) = 1 THEN strs[1]
    ELSE strs[1] \o sep \o Join(sep, Tail(strs))

Range(seq) == {seq[i] : i \in 1..Len(seq)}

---------------------------------------------------------------------------
(* DataFrames *)

HasCol(t, c) == c \in Range(t.cols)

\* df[c] = vals: a new column is appended, an existing one is overwritten in place.
SetCol(t, c, vals) ==
    [n    |-> t.n,
     cols |-> IF HasCol(t, c) THEN t.cols ELSE Append(t.cols, c),
     data |-> [x \in DOMAIN t.data \cup {c} |-> IF x = c THEN vals ELSE t.data[x]]]

DropColKeep(t, c) == t

\* df.drop(columns=[c])
DropCol(t, c) ==
    [n    |-> t.n,
     cols |-> SelectSeq(t.cols, LAMBDA x : x # c),
     data |-> [x \in DOMAIN t.data \ {c} |-> t.data[x]]]

CopyAlias(h, ref) == [heap |-> h, ref |-> ref]

\* df.copy(): a new object holding the same cells; the result names the new object.
Copy(h, ref) == [heap |-> Append(h, h[ref]), ref |-> Len(h) + 1]

\* A function returning a new DataFrame object (drop, and every allocation).
Alloc(h, t) == [heap |-> Append(h, t), ref |-> Len(h) + 1]

---------------------------------------------------------------------------
(* Calendar *)

\* Missing value produced by Series.map for a key the mapping lacks.
NaN == 0

\* month_map, applied to an already lower-cased value.
MonthMap(str) ==
    CASE str = <<"j","a","n">> -> 1  [] str = <<"f","e","b">> -> 2
      [] str = <<"m","a","r">> -> 3  [] str = <<"a","p","r">> -> 4
      [] str = <<"m","a","y">> -> 5  [] str = <<"j","u","n">> -> 6
      [] str = <<"j","u","l">> -> 7  [] str = <<"a","u","g">> -> 8
      [] str = <<"s","e","p">> -> 9  [] str = <<"o","c","t">> -> 10
      [] str = <<"n","o","v">> -> 11 [] str = <<"d","e","c">> -> 12
      [] OTHER -> NaN

IsNa(x) == x = NaN

IsLeap(y) == (y % 4 = 0 /\ y % 100 # 0) \/ y % 400 = 0

DaysInMonth(y, m) ==
    IF m \in {4, 6, 9, 11} THEN 30
    ELSE IF m = 2 THEN (IF IsLeap(y) THEN 29 ELSE 28)
    ELSE 31

\* Whether pd.to_datetime can assemble the triple into a date.
ValidDate(y, m, d) == m \in 1..12 /\ d \in 1..DaysInMonth(y, m)

\* series.dt.quarter
QuarterOf(date) == ((date[2] - 1) \div 3) + 1

---------------------------------------------------------------------------
(* Inputs of reconstruct_contact_date *)

RawMonths ==
    {<<"j","a","n">>, <<"F","E","B">>, <<"D","e","c">>,
     <<"x","y","z">>, <<"J","u">>}

Days == {1, 29}

StartYears == {2007, 2008}

SeqsUpTo(set, n) == UNION {[1..k -> set] : k \in 0..n}

Const(n, v) == [i \in 1..n |-> v]

DateInputs ==
    LET months == SeqsUpTo(RawMonths, MaxRows)
        days   == SeqsUpTo(Days, MaxRows)
    IN  {[n |-> Len(ms), cols |-> <<"month">>, data |-> [c \in {"month"} |-> ms]]
            : ms \in months}
        \cup
        {[n |-> Len(ms), cols |-> <<"month", "day">>,
          data |-> [c \in {"month", "day"} |-> IF c = "month" THEN ms ELSE ds]]
            : <<ms, ds>> \in {p \in months \X days : Len(p[1]) = Len(p[2])}}
        \cup
        {[n |-> Len(ds), cols |-> <<"day">>, data |-> [c \in {"day"} |-> ds]]
            : ds \in days}
        \cup
        {[n |-> Len(ms), cols |-> <<"month_num", "month">>,
          data |-> [c \in {"month_num", "month"} |->
                       IF c = "month" THEN ms ELSE Const(Len(ms), 99)]]
            : ms \in months}
        \cup
        {[n |-> Len(ms), cols |-> <<"year", "month">>,
          data |-> [c \in {"year", "month"} |->
                       IF c = "month" THEN ms ELSE Const(Len(ms), 1999)]]
            : ms \in months}

---------------------------------------------------------------------------
(* reconstruct_contact_date *)

Raise(type, msg, fields, values) ==
    /\ pc' = "raised"
    /\ errType' = type
    /\ errMsg' = msg
    /\ errFields' = fields
    /\ errValues' = values

NoRaise == UNCHANGED <<errType, errMsg, errFields, errValues>>

\* df = df.copy() on entry
CallDate ==
    /\ pc = "idle"
    /\ \E t \in DateInputs, ai \in BOOLEAN, sy \in StartYears :
          LET c == Copy(<<t>>, 1)
          IN  /\ input' = t
              /\ heap' = c.heap
              /\ df' = c.ref
              /\ additional_info' = ai
              /\ start_year' = sy
    /\ op' = "reconstruct_contact_date"
    /\ pc' = "validate"
    /\ NoRaise
    /\ UNCHANGED <<years, current_year, prev_month, idx, id_cols,
                   sample_counts, link_value, result>>

\* if 'month' not in df.columns: raise ValueError
DateValidate ==
    /\ op = "reconstruct_contact_date" /\ pc = "validate"
    /\ IF ~HasCol(heap[df], "month")
       THEN Raise("ValueError", "must contain 'month' column", {"month"}, <<>>)
       ELSE pc' = "map" /\ NoRaise
    /\ UNCHANGED <<op, heap, input, df, additional_info, start_year, years,
                   current_year, prev_month, idx, id_cols, sample_counts,
                   link_value, result>>

\* df['month'].str.lower().map(month_map)
MonthNums(months) == [i \in 1..Len(months) |-> MonthMap(Lower(months[i]))]

UniqueAll(seq) == seq

\* Series.unique(): the distinct values in order of first appearance
RECURSIVE Unique(_)
Unique(seq) ==
    IF Len(seq) = 0 THEN <<>>
    ELSE LET init == Unique(SubSeq(seq, 1, Len(seq) - 1))
             last == seq[Len(seq)]
         IN  IF last \in Range(init) THEN init ELSE Append(init, last)

\* The rows of column col where mask is true: df.loc[mask, col]
RECURSIVE Loc(_, _)
Loc(mask, vals) ==
    IF Len(vals) = 0 THEN <<>>
    ELSE LET rest == Loc(Tail(mask), Tail(vals))
         IN  IF Head(mask) THEN <<Head(vals)>> \o rest ELSE rest

\* df.loc[df['month_num'].isna(), 'month'].unique()
InvalidMonths(t) ==
    Unique(Loc([i \in 1..t.n |-> IsNa(t.data["month_num"][i])], t.data["month"]))

\* df['month_num'] = ...; if df['month_num'].isna().any(): raise ValueError
DateMapMonths ==
    /\ op = "reconstruct_contact_date" /\ pc = "map"
    /\ LET t == SetCol(heap[df], "month_num", MonthNums(heap[df].data["month"]))
       IN  /\ heap' = [heap EXCEPT ![df] = t]
           /\ IF \E i \in 1..t.n : IsNa(t.data["month_num"][i])
              THEN Raise("ValueError", "Invalid month values found", {},
                         InvalidMonths(t))
              ELSE pc' = "scan_init" /\ NoRaise
    /\ UNCHANGED <<op, input, df, additional_info, start_year, years,
                   current_year, prev_month, idx, id_cols, sample_counts,
                   link_value, result>>

\* years = []; current_year = start_year; prev_month = df['month_num'].iloc[0]
DateInitScan ==
    /\ op = "reconstruct_contact_date" /\ pc = "scan_init"
    /\ years' = <<>>
    /\ current_year' = start_year
    /\ IF heap[df].n = 0
       THEN /\ Raise("IndexError", "single positional indexer is out-of-bounds",
                     {}, <<>>)
            /\ UNCHANGED <<prev_month, idx>>
       ELSE /\ prev_month' = heap[df].data["month_num"][1]
            /\ idx' = 1
            /\ pc' = "scan"
            /\ NoRaise
    /\ UNCHANGED <<op, heap, input, df, additional_info, start_year, id_cols,
                   sample_counts, link_value, result>>

MonthDecreasedLE(month_num, prev) == month_num <= prev

MonthDecreasedGT(month_num, prev) == month_num > prev

\* if month_num < prev_month
MonthDecreased(month_num, prev) == month_num < prev

YearAfterGap(year, month_num, prev) ==
    IF MonthDecreased(month_num, prev) THEN year + (prev - month_num) ELSE year

\* current_year += 1 when the month decreased
YearAfter(year, month_num, prev) ==
    IF MonthDecreased(month_num, prev) THEN year + 1 ELSE year

\* one iteration of: for month_num in df['month_num']
DateScanStep ==
    /\ op = "reconstruct_contact_date" /\ pc = "scan"
    /\ idx <= heap[df].n
    /\ LET month_num == heap[df].data["month_num"][idx]
           y == YearAfter(current_year, month_num, prev_month)
       IN  /\ current_year' = y
           /\ years' = Append(years, y)
           /\ prev_month' = month_num
    /\ idx' = idx + 1
    /\ NoRaise
    /\ UNCHANGED <<op, pc, heap, input, df, additional_info, start_year,
                   id_cols, sample_counts, link_value, result>>

\* the loop is exhausted; df['year'] = years
DateAssignYear ==
    /\ op = "reconstruct_contact_date" /\ pc = "scan"
    /\ idx > heap[df].n
    /\ heap' = [heap EXCEPT ![df] = SetCol(heap[df], "year", years)]
    /\ pc' = "compose"
    /\ NoRaise
    /\ UNCHANGED <<op, input, df, additional_info, start_year, years,
                   current_year, prev_month, idx, id_cols, sample_counts,
                   link_value, result>>

\* day_col = df['day'] if 'day' in df.columns else 1
DayCol(t) == IF HasCol(t, "day") THEN t.data["day"] ELSE Const(t.n, 1)

\* the (year, month, day) triples handed to pd.to_datetime
Triples(t) ==
    [i \in 1..t.n |-> <<t.data["year"][i], t.data["month_num"][i], DayCol(t)[i]>>]

\* df['contact_date'] = pd.to_datetime({...})
DateCompose ==
    /\ op = "reconstruct_contact_date" /\ pc = "compose"
    /\ LET t == heap[df]
           dates == Triples(t)
       IN  IF \E i \in 1..t.n : ~ValidDate(dates[i][1], dates[i][2], dates[i][3])
           THEN /\ Raise("ValueError", "cannot assemble the datetimes", {}, <<>>)
                /\ UNCHANGED heap
           ELSE /\ heap' = [heap EXCEPT ![df] = SetCol(t, "contact_date", dates)]
                /\ pc' = "info"
                /\ NoRaise
    /\ UNCHANGED <<op, input, df, additional_info, start_year, years,
                   current_year, prev_month, idx, id_cols, sample_counts,
                   link_value, result>>

\* df['year'].astype(str) + '-Q' + df['quarter'].astype(str)
YearQuarter(year, quarter) == IntToStr(year) \o <<"-", "Q">> \o IntToStr(quarter)

\* if additional_info: df['quarter'] = ...; df['year_quarter'] = ...
DateAddInfo ==
    /\ op = "reconstruct_contact_date" /\ pc = "info"
    /\ additional_info
    /\ LET t  == heap[df]
           q  == [i \in 1..t.n |-> QuarterOf(t.data["contact_date"][i])]
           t1 == SetCol(t, "quarter", q)
           yq == [i \in 1..t.n |-> YearQuarter(t1.data["year"][i], q[i])]
       IN  heap' = [heap EXCEPT ![df] = SetCol(t1, "year_quarter", yq)]
    /\ pc' = "drop"
    /\ NoRaise
    /\ UNCHANGED <<op, input, df, additional_info, start_year, years,
                   current_year, prev_month, idx, id_cols, sample_counts,
                   link_value, result>>

\* df = df.drop(columns=['month_num']); return df
DateDrop ==
    /\ op = "reconstruct_contact_date"
    /\ pc = "drop" \/ (pc = "info" /\ ~additional_info)
    /\ LET a == Alloc(heap, DropCol(heap[df], "month_num"))
       IN  /\ heap' = a.heap
           /\ df' = a.ref
           /\ result' = a.ref
    /\ pc' = "returned"
    /\ NoRaise
    /\ UNCHANGED <<op, input, additional_info, start_year, years,
                   current_year, prev_month, idx, id_cols, sample_counts,
                   link_value>>

NextDate ==
    \/ CallDate
    \/ DateValidate
    \/ DateMapMonths
    \/ DateInitScan
    \/ DateScanStep
    \/ DateAssignYear
    \/ DateCompose
    \/ DateAddInfo
    \/ DateDrop

---------------------------------------------------------------------------
(* Inputs of create_pseudo_customer_id *)

\* id_cols when the caller passes None
DefaultIdCols ==
    <<"age", "job", "marital", "education", "housing", "loan", "contact">>

AgeValues == {I(<<"1">>), S(<<"1">>)}

JobValues == {S(<<"x">>), S(<<"y">>), S(<<"x", "_", "x">>)}

MaritalValues == {S(<<"x">>), S(<<"x", "_", "x">>)}

IdRows == AgeValues \X JobValues \X MaritalValues

IdInputs ==
    LET rowSeqs == SeqsUpTo(IdRows, MaxIdRows) \ {<<>>}
        cell(rs, c, i) ==
            CASE c = "age" -> rs[i][1] [] c = "job" -> rs[i][2]
              [] c = "marital" -> rs[i][3] [] OTHER -> S(<<"u">>)
        table(rs, cs) ==
            [n |-> Len(rs), cols |-> cs,
             data |-> [c \in Range(cs) |-> [i \in 1..Len(rs) |-> cell(rs, c, i)]]]
    IN  {table(rs, <<"age", "job", "marital">>) : rs \in rowSeqs}
        \cup {table(rs, DefaultIdCols) : rs \in rowSeqs}

IdColNames == {"age", "job", "marital", "zip"}

\* the lists a caller passes: lists of distinct names, or None
IdColsInputs ==
    {[isNone |-> FALSE, list |-> l] :
        l \in {q \in SeqsUpTo(IdColNames, 3) \ {<<>>} :
                  \A i, j \in 1..Len(q) : q[i] = q[j] => i = j}}
    \cup {[isNone |-> TRUE, list |-> <<>>]}

---------------------------------------------------------------------------
(* create_pseudo_customer_id *)

\* df = df.copy() on entry
CallId ==
    /\ pc = "idle"
    /\ \E t \in IdInputs, ic \in IdColsInputs :
          LET c == Copy(<<t>>, 1)
          IN  /\ input' = t
              /\ heap' = c.heap
              /\ df' = c.ref
              /\ id_cols' = ic
    /\ op' = "create_pseudo_customer_id"
    /\ pc' = "validate"
    /\ NoRaise
    /\ UNCHANGED <<additional_info, start_year, years, current_year,
                   prev_month, idx, sample_counts, link_value, result>>

\* set(id_cols) - set(df.columns)
MissingCols(cols, t) == Range(cols) \ Range(t.cols)

\* if id_cols is None: ...; missing_cols = ...; if missing_cols: raise ValueError
IdValidate ==
    /\ op = "create_pseudo_customer_id" /\ pc = "validate"
    /\ LET cols == IF id_cols.isNone THEN DefaultIdCols ELSE id_cols.list
           missing_cols == MissingCols(cols, heap[df])
       IN  /\ id_cols' = [isNone |-> FALSE, list |-> cols]
           /\ IF missing_cols # {}
              THEN Raise("ValueError", "Columns not found in DataFrame",
                         missing_cols, <<>>)
              ELSE pc' = "assign" /\ NoRaise
    /\ UNCHANGED <<op, heap, input, df, additional_info, start_year, years,
                   current_year, prev_month, idx, sample_counts, link_value,
                   result>>

RowIdFirstRow(t, r, cols) ==
    Join(<<"_">>, [i \in 1..Len(cols) |-> Str(t.data[cols[i]][1])])

RowIdTableOrder(t, r, cols) ==
    LET ordered == SelectSeq(t.cols, LAMBDA c : c \in Range(cols))
    IN  Join(<<"_">>, [i \in 1..Len(ordered) |-> Str(t.data[ordered[i]][r])])

\* df[id_cols].astype(str).agg('_'.join, axis=1), for row r
RowId(t, r, cols) ==
    Join(<<"_">>, [i \in 1..Len(cols) |-> Str(t.data[cols[i]][r])])

\* df['pseudo_id'] = ...; return df
IdAssign ==
    /\ op = "create_pseudo_customer_id" /\ pc = "assign"
    /\ LET t == heap[df]
       IN  heap' = [heap EXCEPT ![df] =
                       SetCol(t, "pseudo_id",
                              [r \in 1..t.n |-> RowId(t, r, id_cols.list)])]
    /\ result' = df
    /\ pc' = "returned"
    /\ NoRaise
    /\ UNCHANGED <<op, input, df, additional_info, start_year, years,
                   current_year, prev_month, idx, id_cols, sample_counts,
                   link_value>>

NextId ==
    \/ CallId
    \/ IdValidate
    \/ IdAssign

---------------------------------------------------------------------------
(* create_sample_flow_diagram *)

CountKeys ==
    {"total_contacts", "wave_1_and_2", "single_wave", "cross_wave",
     "final_wave_1", "final_wave_2"}

\* the keys each element of the link value list subscripts, in evaluation order
LinkKeys ==
    << <<"wave_1_and_2">>,
       <<"total_contacts", "wave_1_and_2">>,
       <<"single_wave">>,
       <<"cross_wave">>,
       <<"final_wave_1">>,
       <<"final_wave_2">> >>

\* the value of element i of the link value list
LinkValue(counts, i) ==
    IF i = 2 THEN counts["total_contacts"] - counts["wave_1_and_2"]
    ELSE counts[LinkKeys[i][1]]

CountOf(k, total) ==
    CASE k = "total_contacts" -> total [] k = "wave_1_and_2" -> 600
      [] k = "single_wave" -> 400 [] k = "cross_wave" -> 200
      [] k = "final_wave_1" -> 250 [] k = "final_wave_2" -> 150

SampleCountsInputs ==
    {[k \in ks |-> CountOf(k, total)] :
        <<ks, total>> \in (SUBSET CountKeys) \X {1000, 500}}

CallFlow ==
    /\ pc = "idle"
    /\ \E counts \in SampleCountsInputs : sample_counts' = counts
    /\ op' = "create_sample_flow_diagram"
    /\ pc' = "links"
    /\ idx' = 1
    /\ link_value' = <<>>
    /\ NoRaise
    /\ UNCHANGED <<heap, input, df, additional_info, start_year, years,
                   current_year, prev_month, id_cols, result>>

\* the first key of keys that dict d lacks (a subscript of it raises KeyError)
FirstMissing(keys, d) ==
    LET absent == {i \in 1..Len(keys) : keys[i] \notin DOMAIN d}
    IN  keys[CHOOSE i \in absent : \A j \in absent : i <= j]

\* evaluation of one element of value=[...]
FlowLink ==
    /\ op = "create_sample_flow_diagram" /\ pc = "links"
    /\ idx <= Len(LinkKeys)
    /\ IF Range(LinkKeys[idx]) \subseteq DOMAIN sample_counts
       THEN /\ link_value' = Append(link_value, LinkValue(sample_counts, idx))
            /\ idx' = idx + 1
            /\ UNCHANGED pc
            /\ NoRaise
       ELSE /\ Raise("KeyError", "KeyError",
                     {FirstMissing(LinkKeys[idx], sample_counts)}, <<>>)
            /\ UNCHANGED <<link_value, idx>>
    /\ UNCHANGED <<op, heap, input, df, additional_info, start_year, years,
                   current_year, prev_month, id_cols, sample_counts, result>>

\* go.Figure(...); fig.update_layout(...); return fig
FlowReturn ==
    /\ op = "create_sample_flow_diagram" /\ pc = "links"
    /\ idx > Len(LinkKeys)
    /\ pc' = "returned"
    /\ NoRaise
    /\ UNCHANGED <<op, heap, input, df, additional_info, start_year, years,
                   current_year, prev_month, idx, id_cols, sample_counts,
                   link_value, result>>

NextFlow ==
    \/ CallFlow
    \/ FlowLink
    \/ FlowReturn

---------------------------------------------------------------------------
(* Specifications *)

EmptyTable == [n |-> 0, cols |-> <<>>, data |-> <<>>]

Init ==
    /\ op = "none"
    /\ pc = "idle"
    /\ heap = <<>>
    /\ input = EmptyTable
    /\ df = 0
    /\ additional_info = FALSE
    /\ start_year = 0
    /\ years = <<>>
    /\ current_year = 0
    /\ prev_month = 0
    /\ idx = 0
    /\ id_cols = [isNone |-> TRUE, list |-> <<>>]
    /\ sample_counts = <<>>
    /\ link_value = <<>>
    /\ errType = "none"
    /\ errMsg = "none"
    /\ errFields = {}
    /\ errValues = <<>>
    /\ result = 0

SpecDate == Init /\ [][NextDate]_vars

SpecId == Init /\ [][NextId]_vars

SpecFlow == Init /\ [][NextFlow]_vars

Next ==
    \/ NextDate
    \/ NextId
    \/ NextFlow

Spec == Init /\ [][Next]_vars

---------------------------------------------------------------------------
(* Properties of reconstruct_contact_date *)

InDate == op = "reconstruct_contact_date"

Returned == pc = "returned"

\* the twelve three-letter abbreviations
Abbreviations ==
    {<<"j","a","n">>, <<"f","e","b">>, <<"m","a","r">>, <<"a","p","r">>,
     <<"m","a","y">>, <<"j","u","n">>, <<"j","u","l">>, <<"a","u","g">>,
     <<"s","e","p">>, <<"o","c","t">>, <<"n","o","v">>, <<"d","e","c">>}

\* the raw month values of the input that are not an abbreviation once lower-cased
Offending ==
    {input.data["month"][i] : i \in {j \in 1..input.n :
                                  Lower(input.data["month"][j]) \notin Abbreviations}}

\* the number of adjacent pairs (k-1, k), 2 <= k <= i, whose month strictly decreases
Decreases(mn, i) == Cardinality({k \in 2..i : mn[k] < mn[k - 1]})

ExpectedYears(ys, mn) ==
    /\ \A i \in 1..Len(ys) : ys[i] = start_year + Decreases(mn, i)
    /\ Len(ys) >= 1 => ys[1] = start_year
    /\ \A i \in 2..Len(ys) : mn[i] = mn[i - 1] => ys[i] = ys[i - 1]
    /\ (\A i \in 2..Len(ys) : mn[i] >= mn[i - 1]) =>
           \A i \in 1..Len(ys) : ys[i] = start_year

\* C1: for a non-empty sequence of valid months, row i gets the year
\* start_year + the number of strictly decreasing adjacent month pairs up to
\* row i (both in the list years while it is built and in the returned year
\* column): the first row gets start_year, a repeated month never increments,
\* and a sequence without a decrease keeps start_year throughout.
C1_YearCountsDecreases ==
    (InDate /\ HasCol(input, "month") /\ input.n > 0 /\ Offending = {}) =>
        LET mn == MonthNums(input.data["month"])
        IN  /\ ExpectedYears(years, mn)
            /\ Returned =>
                  /\ Len(heap[result].data["year"]) = input.n
                  /\ ExpectedYears(heap[result].data["year"], mn)

C1_Witness ==
    /\ InDate /\ Returned /\ input.n = 3
    /\ heap[result].data["year"] = <<start_year, start_year + 1, start_year + 2>>

Monotone(ys) ==
    /\ \A i, j \in 1..Len(ys) : i < j => ys[i] <= ys[j]
    /\ \A i \in 1..(Len(ys) - 1) : ys[i + 1] - ys[i] <= 1

\* C2: after every step of the row scan and in every result the years are
\* non-decreasing in row order and consecutive rows differ by at most 1.
C2_YearMonotone ==
    InDate =>
        /\ Monotone(years)
        /\ Returned => Monotone(heap[result].data["year"])

C2_Witness ==
    /\ InDate /\ pc = "scan" /\ Len(years) = 3
    /\ years[2] = years[1] + 1 /\ years[3] = years[2]

DateLT(a, b) ==
    \/ a[1] < b[1]
    \/ a[1] = b[1] /\ a[2] < b[2]
    \/ a[1] = b[1] /\ a[2] = b[2] /\ a[3] < b[3]

\* The original statement of C3: in every result each row's contact_date is
\* not earlier than the preceding row's, with or without a day column.
C3_DateMonotone ==
    (InDate /\ Returned) =>
        LET cd == heap[result].data["contact_date"]
        IN  \A i \in 1..(input.n - 1) : ~DateLT(cd[i + 1], cd[i])

\* C3 (amended): in every result a row's contact_date is earlier than the
\* preceding row's exactly when the input has a day column, the two rows have
\* the same month and the later row's day is smaller; so with the day
\* defaulted to 1 contact_date is non-decreasing, and the (year, month) part
\* of contact_date is non-decreasing in every case.
C3_DateMonotoneUpToDay ==
    (InDate /\ Returned) =>
        LET cd == heap[result].data["contact_date"]
            mn == MonthNums(input.data["month"])
        IN  \A i \in 1..(input.n - 1) :
               /\ DateLT(cd[i + 1], cd[i]) <=>
                     /\ HasCol(input, "day")
                     /\ mn[i + 1] = mn[i]
                     /\ input.data["day"][i + 1] < input.data["day"][i]
               /\ ~DateLT(<<cd[i + 1][1], cd[i + 1][2], 1>>, <<cd[i][1], cd[i][2], 1>>)

C3_Witness ==
    /\ InDate /\ Returned /\ ~HasCol(input, "day") /\ input.n = 3
    /\ LET cd == heap[result].data["contact_date"]
       IN  DateLT(cd[1], cd[2]) /\ cd[2] = cd[3] /\ cd[2][1] = cd[1][1] + 1

\* C4: on a table with a month column and zero rows the call returns, without
\* error, an empty table carrying year and contact_date (and quarter and
\* year_quarter in additional-info mode).
C4_EmptyInputReturnsEmpty ==
    (InDate /\ HasCol(input, "month") /\ input.n = 0 /\ pc \in {"returned", "raised"}) =>
        /\ Returned
        /\ errType = "none"
        /\ heap[result].n = 0
        /\ HasCol(heap[result], "year") /\ HasCol(heap[result], "contact_date")
        /\ additional_info =>
              HasCol(heap[result], "quarter") /\ HasCol(heap[result], "year_quarter")

\* C5: when some month is not an abbreviation after lower-casing, the call
\* fails at the mapping step, before any year is inferred and without a
\* result, and the error holds every distinct offending raw value exactly
\* once and no valid one; when every month is valid in any letter case no
\* invalid-value error is raised.
C5_InvalidMonthsReported ==
    (InDate /\ HasCol(input, "month")) =>
        /\ Offending # {} =>
              /\ pc \in {"validate", "map", "raised"}
              /\ years = <<>> /\ result = 0
              /\ ~HasCol(heap[df], "contact_date")
              /\ pc = "raised" =>
                    /\ errType = "ValueError"
                    /\ errMsg = "Invalid month values found"
                    /\ Range(errValues) = Offending
                    /\ Len(errValues) = Cardinality(Offending)
        /\ Offending = {} => errMsg # "Invalid month values found"

C5_Witness ==
    /\ InDate /\ pc = "raised" /\ errMsg = "Invalid month values found"
    /\ input.n = 3
    /\ errValues = <<input.data["month"][1]>>
    /\ input.data["month"][3] = input.data["month"][1]
    /\ Lower(input.data["month"][2]) \in Abbreviations
    /\ Lower(input.data["month"][2]) # input.data["month"][2]

\* the column names a call writes
Written ==
    {"month_num", "year", "contact_date"}
    \cup (IF additional_info THEN {"quarter", "year_quarter"} ELSE {})

---------------------------------------------------------------------------
(* Properties of create_pseudo_customer_id *)

InId == op = "create_pseudo_customer_id"

\* the string forms of row r's identifier fields, in the order cols
Forms(r, cols) == [i \in 1..Len(cols) |-> Str(input.data[cols[i]][r])]

NoSeparator(strs) == \A i \in 1..Len(strs) : "_" \notin Range(strs[i])

RECURSIVE Offset(_, _)
Offset(strs, k) == IF k = 1 THEN 0 ELSE Offset(strs, k - 1) + Len(strs[k - 1]) + 1

\* id is the strings strs in order with one '_' between neighbours
IsJoined(id, strs) ==
    /\ Len(id) = Offset(strs, Len(strs) + 1) - 1
    /\ \A k \in 1..Len(strs) :
          /\ SubSeq(id, Offset(strs, k) + 1, Offset(strs, k) + Len(strs[k])) = strs[k]
          /\ k < Len(strs) => id[Offset(strs, k + 1)] = "_"

\* The original statement of C9: two rows have equal pseudo_id if and only if
\* they have equal values in every identifier field.
C9_EqualIdIffEqualValues ==
    (InId /\ Returned) =>
        LET r == heap[result]
        IN  \A a, b \in 1..r.n :
               (r.data["pseudo_id"][a] = r.data["pseudo_id"][b]) <=>
                  \A c \in Range(id_cols.list) : input.data[c][a] = input.data[c][b]

\* C9 (amended): pseudo_id is the string forms of the field values joined
\* with '_' in id_cols order; rows with equal values in every identifier
\* field have equal pseudo_id; conversely rows with equal pseudo_id have equal
\* string forms in every identifier field provided no string form of either
\* row contains '_' (the values themselves may still differ, as 1 and '1').
C9_EqualValuesGiveEqualId ==
    (InId /\ Returned) =>
        LET r == heap[result]
            cols == id_cols.list
        IN  /\ Len(r.data["pseudo_id"]) = input.n
            /\ \A a \in 1..r.n : IsJoined(r.data["pseudo_id"][a], Forms(a, cols))
            /\ \A a, b \in 1..r.n :
                  /\ (\A c \in Range(cols) : input.data[c][a] = input.data[c][b])
                        => r.data["pseudo_id"][a] = r.data["pseudo_id"][b]
                  /\ ( /\ NoSeparator(Forms(a, cols)) /\ NoSeparator(Forms(b, cols))
                       /\ r.data["pseudo_id"][a] = r.data["pseudo_id"][b] )
                        => Forms(a, cols) = Forms(b, cols)

C9_Witness ==
    /\ InId /\ Returned /\ input.n = 2 /\ id_cols.list = <<"job", "age">>
    /\ heap[result].data["pseudo_id"] = << <<"x", "_", "1">>, <<"y", "_", "1">> >>

Orders(cols) ==
    {q \in [1..Len(cols) -> Range(cols)] : \A i, j \in 1..Len(q) : q[i] = q[j] => i = j}

Swap(cols, i, j) ==
    [k \in 1..Len(cols) |-> IF k = i THEN cols[j] ELSE IF k = j THEN cols[i] ELSE cols[k]]

\* the other orders of the same fields: every one for a list of up to three
\* fields, the exchanges of two fields for a longer list
OtherOrders(cols) ==
    IF Len(cols) <= 3 THEN Orders(cols) \ {cols}
    ELSE {Swap(cols, i, j) : <<i, j>> \in {p \in (1..Len(cols)) \X (1..Len(cols)) : p[1] < p[2]}}

\* The original statement of C10: the same fields in a different order give a
\* different pseudo_id for the same row unless the row's values are identical
\* across all the identifier fields.
C10_OtherOrderOtherId ==
    (InId /\ Returned) =>
        LET cols == id_cols.list
        IN  \A o \in OtherOrders(cols) : \A a \in 1..input.n :
               (\E c, d \in Range(cols) : input.data[c][a] # input.data[d][a])
                  => RowId(input, a, o) # heap[result].data["pseudo_id"][a]

\* C10 (amended): the same fields in a different order give the same
\* pseudo_id for the same row when the row's string forms agree position by
\* position in the two orders (all values identical, or only fields of equal
\* string form exchanged), and a different pseudo_id otherwise provided no
\* string form contains '_'; the same order on the same values gives the same
\* pseudo_id.
C10_OrderIsPartOfKey ==
    (InId /\ Returned) =>
        LET cols == id_cols.list
        IN  \A a \in 1..input.n :
               /\ RowId(input, a, cols) = heap[result].data["pseudo_id"][a]
               /\ \A o \in OtherOrders(cols) :
                     /\ Forms(a, o) = Forms(a, cols)
                           => RowId(input, a, o) = heap[result].data["pseudo_id"][a]
                     /\ (NoSeparator(Forms(a, cols)) /\ Forms(a, o) # Forms(a, cols))
                           => RowId(input, a, o) # heap[result].data["pseudo_id"][a]

C10_Witness ==
    /\ InId /\ Returned /\ id_cols.list = <<"job", "age", "marital">>
    /\ heap[result].data["pseudo_id"][1] = <<"x", "_", "1", "_", "x">>
    /\ RowId(input, 1, <<"age", "job", "marital">>) = <<"1", "_", "x", "_", "x">>

---------------------------------------------------------------------------
(* Properties of every operation *)

\* C6: when required fields are absent the call fails before it computes
\* anything and the error names every missing field.
C6_MissingFieldsAllNamed ==
    /\ (InDate /\ ~HasCol(input, "month")) =>
          /\ pc \in {"validate", "raised"}
          /\ pc = "raised" => errFields = {"month"}
    /\ (InId /\ pc # "validate"
             /\ Range(id_cols.list) \ Range(input.cols) # {}) =>
          /\ pc = "raised"
          /\ errFields = Range(id_cols.list) \ Range(input.cols)
          /\ ~HasCol(heap[df], "pseudo_id")
    /\ (op = "create_sample_flow_diagram"
             /\ CountKeys \ DOMAIN sample_counts # {}) =>
          /\ pc \in {"links", "raised"}
          /\ link_value = <<>>
          /\ pc = "raised" => errFields = CountKeys \ DOMAIN sample_counts

\* C7: from the call on, whether it returns or raises, the caller's table has
\* the columns and cells it had when the call was made.
C7_CallerTableUnchanged ==
    (InDate \/ InId) => heap[1] = input

C7_Witness ==
    /\ InDate /\ pc = "raised" /\ errMsg = "cannot assemble the datetimes"
    /\ HasCol(heap[df], "month_num") /\ HasCol(heap[df], "year")
    /\ heap[1].cols = <<"month", "day">>

=============================================================================
